---- MODULE Spec2Model ----
(***************************************************************************)
(* Model of the anomaly-detection core of ai_ml_service/main.py:           *)
(* the model store (save_model / load_model), the per-device               *)
(* AnomalyDetector (train / predict), the detector registry                *)
(* (anomaly_detectors) and the /anomaly and /models/{device_id} handlers.  *)
(*                                                                         *)
(* Strings that take part in path construction (device identifiers, file   *)
(* names) are sequences of tokens, so that the f-string of save_model and  *)
(* the glob of clear_device_models are computed, not assumed.              *)
(*                                                                         *)
(* The IsolationForest of scikit-learn is a library: a fitted model is the *)
(* data it was fitted on together with a decision function over the        *)
(* observation values, chosen nondeterministically at fit time; predict    *)
(* labels a point -1 exactly when its decision score is negative; an       *)
(* unfitted model raises NotFittedError, an empty input raises ValueError. *)
(***************************************************************************)
EXTENDS Integers, Sequences, FiniteSets, TLC

VARIABLES
    anomaly_detectors,  \* main.py:277  registry: device_id -> AnomalyDetector
    files,              \* MODELS_DIR:  file name -> pickled content
    detector,           \* an AnomalyDetector object used directly through its class API
    models,             \* advanced_ai_features.py:247  device types with a maintenance model
    assistant,          \* advanced_ai_features.py:419  the ConversationalAIAssistant's entities
    anomaly_models,     \* advanced_ai_features.py:102  device types with trained ensemble models
    running,            \* main.py:503  the detect_anomalies coroutines in flight, and where they are
    resp,               \* outcome of the last operation (what its caller observes)
    calls               \* number of operations performed so far

vars == <<anomaly_detectors, files, detector, models, assistant, anomaly_models, running, resp, calls>>

------------------------------------------------------------------------------
(* Program constants *)

MinTrain == 10          \* main.py:241  len(data) >= 10
MaxBaseline == 1000     \* main.py:269  self.baseline[-1000:]
RetrainEvery == 100     \* main.py:271  len(self.baseline) % 100 == 0
MinValues == 10         \* main.py:509  len(values) < 10 -> 400
MinHistory == 3         \* main.py:376  len(history) < 3 -> 400
ProphetMinHistory == 7  \* main.py:383  len(history) < 7 -> moving average

(* Bounds of the model *)

MaxCalls == 2           \* operations per behaviour of DetectorSpec
MaxRequests == 3        \* requests per behaviour of Spec
MaxStoreCalls == 3      \* save_model / load_model calls per behaviour of StoreSpec
MaxApiRequests == 2     \* requests per behaviour of ApiSpec
MaxVoiceRequests == 3   \* requests per behaviour of VoiceSpec
MaxRaceRequests == 3    \* requests per behaviour of RaceSpec
MaxEnsembleRequests == 2 \* requests per behaviour of EnsembleSpec
MaxRows == 3            \* rows of a request to the ensemble

------------------------------------------------------------------------------
(* Observations and inputs *)

\* Two observation values: a typical reading and a gross one.
Values == {5, 100}
Typical == CHOOSE v \in Values : \A w \in Values : v <= w
Gross == CHOOSE v \in Values : \A w \in Values : v >= w

\* Floats that the library's input validation rejects: float('nan'), and a
\* value beyond the float32 range of the forest (1e39, float('inf')).
NaN == 0 - 1
Huge == 0 - 2
Finite(X) == \A i \in 1..Len(X) : X[i] \in Values

\* A sequence written as a function, evaluated once into a tuple.
Tuple(fn) == fn \o <<>>

Rep(n, v) == Tuple([i \in 1..n |-> v])
Alt(n) == Tuple([i \in 1..n |-> IF i % 2 = 1 THEN Typical ELSE Gross])

\* The observation arrays handed to train / predict.
Inputs ==
    { Rep(9, Typical), Alt(10), Rep(90, Typical), Alt(1001) }

\* The value lists posted to /anomaly: one too short, and one that trains a new
\* detector and brings a trained one to 150 or to 200 entries.
Posted == { Rep(9, Typical), Alt(100) }

------------------------------------------------------------------------------
(* None and exceptions *)

\* Python's None.
None == [type |-> "NoneType"]

\* An exception object: its class, its message (str(e) for a library
\* exception, the detail of an HTTPException), and the status of an HTTPException.
Error(type, message) == [type |-> type, status_code |-> 0, detail |-> message]
HTTPException(status_code, detail) ==
    [type |-> "HTTPException", status_code |-> status_code, detail |-> detail]

\* str(e): the message of a library exception; "{status_code}: {detail}" for
\* an HTTPException.
Str(e) ==
    IF e.type = "HTTPException"
    THEN <<ToString(e.status_code), ": ">> \o e.detail
    ELSE e.detail

------------------------------------------------------------------------------
(* Device identifiers and file names *)

Dev == <<"dev">>
Dev1 == <<"dev", "_", "1">>
Devices == {Dev, Dev1}

AnomalyKind == <<"anomaly">>
ForecastKind == <<"forecast">>
Kinds == {AnomalyKind, ForecastKind}

FileNameNoKind(device_id, model_type) == device_id \o <<".pkl">>

FileNameShared(device_id, model_type) == <<"model", "_">> \o model_type \o <<".pkl">>

\* f"{device_id}_{model_type}.pkl"
FileName(device_id, model_type) == device_id \o <<"_">> \o model_type \o <<".pkl">>

GlobMatchExact(device_id, name) == name = device_id \o <<".pkl">>

\* MODELS_DIR.glob(f"{device_id}_*.pkl"): the names that start with
\* device_id + "_" and end with ".pkl".
GlobMatch(device_id, name) ==
    LET pre == device_id \o <<"_">>
    IN  /\ Len(name) >= Len(pre) + 1
        /\ SubSeq(name, 1, Len(pre)) = pre
        /\ name[Len(name)] = ".pkl"

------------------------------------------------------------------------------
(* IsolationForest *)

DecisionFns == [Values -> {-1, 1}]

\* IsolationForest(contamination=0.1, random_state=42, n_estimators=100), not
\* fitted.  instance: the object the constructor call made; an object keeps it
\* for as long as it lives, whatever is done to its contents.
NewForest == [instance |-> 1, fitted |-> FALSE, X |-> <<>>, score |-> [v \in Values |-> 1]]

\* Data in which every observation has the same value.
IsConstant(data) == \A i \in 1..Len(data) : data[i] = data[1]

\* The decision function of a forest that could not split: every point gets
\* the score of the training points, which is the offset, so the decision
\* value is 0 everywhere.
ZeroScore == [v \in Values |-> 0]

\* model.fit(data.reshape(-1, 1)): the estimator is fitted in place and fit
\* returns it.  On constant data no tree has a split.
Fit(model, data, f) ==
    [model EXCEPT !.fitted = TRUE, !.X = data,
                  !.score = IF IsConstant(data) THEN ZeroScore ELSE f]

\* The input validation of fit, decision_function and predict.
InputError(X) ==
    IF Len(X) = 0
    THEN Error("ValueError", <<"Found array with 0 sample(s)">>)
    ELSE IF \E i \in 1..Len(X) : X[i] = NaN
    THEN Error("ValueError", <<"Input X contains NaN.">>)
    ELSE Error("ValueError", <<"Input X contains infinity or a value too large">>)

\* model.decision_function / model.predict raise on an unfitted model, an
\* empty input, or an input that is not finite.
Raises(model, X) == ~model.fitted \/ Len(X) = 0 \/ ~Finite(X)

RaisedBy(model, X) ==
    IF ~model.fitted
    THEN Error("NotFittedError", <<"This IsolationForest instance is not fitted yet.">>)
    ELSE InputError(X)

decision_function(model, X) == Tuple([i \in 1..Len(X) |-> model.score[X[i]]])

\* IsolationForest.predict: -1 where decision_function < 0, else 1.
predict_labels(model, X) ==
    Tuple([i \in 1..Len(X) |-> IF model.score[X[i]] < 0 THEN -1 ELSE 1])

------------------------------------------------------------------------------
(* Model store *)

IoOutcomes == {"ok", "denied", "partial"}

\* The content of a file: a pickle of an object, or bytes that do not
\* deserialize (a write that failed after the file was opened).
Corrupt == [ok |-> FALSE, obj |-> None]

\* joblib.dump / joblib.load: the object graph is written out and read back
\* as a copy with the same attribute values.
Pickle(obj) == [ok |-> TRUE, obj |-> obj]

UnpickleNoBaseline(blob) == [blob.obj EXCEPT !.baseline = <<>>]

Unpickle(blob) == blob.obj

Put(fs, name, blob) ==
    [n \in (DOMAIN fs) \cup {name} |-> IF n = name THEN blob ELSE fs[n]]

\* save_model: joblib.dump opens the file for writing and then pickles into it.
\* io = "denied": the open fails; io = "partial": the write fails after the open.
\* Either way the exception is logged and swallowed.
save_model(fs, device_id, model_type, obj, io) ==
    LET path == FileName(device_id, model_type)
    IN  CASE io = "ok"      -> [files |-> Put(fs, path, Pickle(obj)), log |-> <<"saved">>]
          [] io = "partial" -> [files |-> Put(fs, path, Corrupt), log |-> <<"save_error">>]
          [] OTHER          -> [files |-> fs, log |-> <<"save_error">>]

load_model_any_kind(fs, device_id, model_type) ==
    LET path == FileName(device_id, AnomalyKind)
    IN  IF path \in DOMAIN fs
        THEN IF fs[path].ok
             THEN [found |-> TRUE, obj |-> Unpickle(fs[path]), log |-> <<"loaded">>]
             ELSE [found |-> FALSE, obj |-> None,
                   log |-> <<"loaded", "load_error">>]
        ELSE [found |-> FALSE, obj |-> None, log |-> <<>>]

\* load_model: None unless the path exists and deserializes.  "Loaded model" is
\* logged as soon as the path exists, before joblib.load; a failing
\* joblib.load is logged and swallowed.
load_model(fs, device_id, model_type) ==
    LET path == FileName(device_id, model_type)
    IN  IF path \in DOMAIN fs
        THEN IF fs[path].ok
             THEN [found |-> TRUE, obj |-> Unpickle(fs[path]), log |-> <<"loaded">>]
             ELSE [found |-> FALSE, obj |-> None,
                   log |-> <<"loaded", "load_error">>]
        ELSE [found |-> FALSE, obj |-> None, log |-> <<>>]

------------------------------------------------------------------------------
(* AnomalyDetector *)

\* AnomalyDetector.__init__
AnomalyDetector(device_id) ==
    [device_id |-> device_id, model |-> NewForest, trained |-> FALSE, baseline |-> <<>>]

\* The last n elements of s: s[-n:]
LastN(s, n) == IF Len(s) <= n THEN s ELSE SubSeq(s, Len(s) - n + 1, Len(s))

\* How a method ends: it returns, or it raises exc.
Done(self, fs, log) ==
    [self |-> self, files |-> fs, log |-> log, raised |-> FALSE, exc |-> None]
Failed(self, fs, log, exc) ==
    [self |-> self, files |-> fs, log |-> log, raised |-> TRUE, exc |-> exc]

TrainStrict(self, data, fs, f, io) ==
    IF Len(data) > MinTrain
    THEN LET s1 == [self EXCEPT !.model = Fit(self.model, data, f),
                                !.baseline = data,
                                !.trained = TRUE]
             sv == save_model(fs, s1.device_id, AnomalyKind, s1, io)
         IN  Done(s1, sv.files, sv.log \o <<"trained">>)
    ELSE Done(self, fs, <<>>)

TrainAnyLength(self, data, fs, f, io) ==
    LET s1 == [self EXCEPT !.model = Fit(self.model, data, f),
                           !.baseline = data,
                           !.trained = TRUE]
        sv == save_model(fs, s1.device_id, AnomalyKind, s1, io)
    IN  Done(s1, sv.files, sv.log \o <<"trained">>)

TrainOrReset(self, data, fs, f, io) ==
    IF Len(data) >= MinTrain
    THEN LET s1 == [self EXCEPT !.model = Fit(self.model, data, f),
                                !.baseline = data,
                                !.trained = TRUE]
             sv == save_model(fs, s1.device_id, AnomalyKind, s1, io)
         IN  Done(s1, sv.files, sv.log \o <<"trained">>)
    ELSE Done([self EXCEPT !.trained = FALSE], fs, <<>>)

TrainSaveFirst(self, data, fs, f, io) ==
    IF Len(data) >= MinTrain
    THEN LET sv == save_model(fs, self.device_id, AnomalyKind, self, io)
             s1 == [self EXCEPT !.model = Fit(self.model, data, f),
                                !.baseline = data,
                                !.trained = TRUE]
         IN  Done(s1, sv.files, sv.log \o <<"trained">>)
    ELSE Done(self, fs, <<>>)

\* AnomalyDetector.train.  model.fit validates its input first and raises
\* before any attribute of the detector is assigned.
Train(self, data, fs, f, io) ==
    IF Len(data) >= MinTrain
    THEN IF ~Finite(data)
         THEN Failed(self, fs, <<>>, InputError(data))
         ELSE LET s1 == [self EXCEPT !.model = Fit(self.model, data, f),
                                     !.baseline = data,
                                     !.trained = TRUE]
                  sv == save_model(fs, s1.device_id, AnomalyKind, s1, io)
              IN  Done(s1, sv.files, sv.log \o <<"trained">>)
    ELSE Done(self, fs, <<>>)

EnumerateFrom1(predictions) ==
    Tuple([i \in 1..Len(predictions) |-> <<i, predictions[i]>>])

\* enumerate(predictions): the pairs (index, label), 0-based.
Enumerate(predictions) == Tuple([i \in 1..Len(predictions) |-> <<i - 1, predictions[i]>>])

First(pairs) == Tuple([k \in 1..Len(pairs) |-> pairs[k][1]])

\* [i for i, pred in enumerate(predictions) if pred == -1]
AnomalyIndices(predictions) ==
    First(SelectSeq(Enumerate(predictions), LAMBDA p : p[2] = -1))

\* new_data[predictions == 1]: the elements at the positions of the mask.
NormalPoints(new_data, predictions) ==
    First(SelectSeq(Tuple([i \in 1..Len(new_data) |-> <<new_data[i], predictions[i]>>]),
                    LAMBDA p : p[2] = 1))

ShouldRetrainAtLeast(baseline) == Len(baseline) >= RetrainEvery

\* Mutant of ShouldRetrain: a full buffer is not retrained on.
ShouldRetrainBelowCap(baseline) ==
    Len(baseline) % RetrainEvery = 0 /\ Len(baseline) < MaxBaseline

\* Mutant of ShouldRetrain: only the first hundred retrains.
ShouldRetrainOnHundred(baseline) == Len(baseline) = RetrainEvery

\* "Retrain periodically": len(self.baseline) % 100 == 0
ShouldRetrain(baseline) == Len(baseline) % RetrainEvery = 0

Raised(self, fs, log, exc) ==
    [self |-> self, files |-> fs, log |-> log, raised |-> TRUE, exc |-> exc,
     anomalies |-> <<>>, scores |-> <<>>]

\* Mutant of PredictUpdate: an append that does not retrain is saved too.
PredictUpdateSaving(self, new_data, scores, predictions, fs, f, io) ==
    LET anomalies == AnomalyIndices(predictions)
        normal_points == NormalPoints(new_data, predictions)
        grown == LastN(self.baseline \o normal_points, MaxBaseline)
        s1 == [self EXCEPT !.baseline = grown]
        t == IF Len(normal_points) > 0
             THEN IF ShouldRetrain(grown)
                  THEN Train(s1, grown, fs, f, io)
                  ELSE Done(s1, save_model(fs, s1.device_id, AnomalyKind, s1, io).files, <<>>)
             ELSE Done(self, fs, <<>>)
    IN  IF t.raised
        THEN Raised(t.self, t.files, t.log, t.exc)
        ELSE [self |-> t.self, files |-> t.files, log |-> t.log, raised |-> FALSE,
              exc |-> None, anomalies |-> anomalies, scores |-> scores]

\* Mutant of PredictUpdate: the retrain check is made whether or not a normal
\* point was appended.
PredictUpdateAlwaysChecks(self, new_data, scores, predictions, fs, f, io) ==
    LET anomalies == AnomalyIndices(predictions)
        normal_points == NormalPoints(new_data, predictions)
        grown == LastN(self.baseline \o normal_points, MaxBaseline)
        s1 == [self EXCEPT !.baseline = grown]
        t == IF ShouldRetrain(grown)
             THEN Train(s1, grown, fs, f, io)
             ELSE Done(s1, fs, <<>>)
    IN  IF t.raised
        THEN Raised(t.self, t.files, t.log, t.exc)
        ELSE [self |-> t.self, files |-> t.files, log |-> t.log, raised |-> FALSE,
              exc |-> None, anomalies |-> anomalies, scores |-> scores]

\* AnomalyDetector.predict on a trained detector, from "Find anomalies" on:
\* scores and predictions are what the model gave for new_data.
PredictUpdate(self, new_data, scores, predictions, fs, f, io) ==
    LET anomalies == AnomalyIndices(predictions)
        normal_points == NormalPoints(new_data, predictions)
        grown == LastN(self.baseline \o normal_points, MaxBaseline)
        s1 == [self EXCEPT !.baseline = grown]
        t == IF Len(normal_points) > 0
             THEN IF ShouldRetrain(grown)
                  THEN Train(s1, grown, fs, f, io)
                  ELSE Done(s1, fs, <<>>)
             ELSE Done(self, fs, <<>>)
    IN  IF t.raised
        THEN Raised(t.self, t.files, t.log, t.exc)
        ELSE [self |-> t.self, files |-> t.files, log |-> t.log, raised |-> FALSE,
              exc |-> None, anomalies |-> anomalies, scores |-> scores]

\* AnomalyDetector.predict
Predict(self, new_data, fs, f, io) ==
    IF ~self.trained
    THEN LET t == Train(self, new_data, fs, f, io)
         IN  IF t.raised
             THEN Raised(t.self, t.files, t.log, t.exc)
             ELSE IF Raises(t.self.model, new_data)
             THEN Raised(t.self, t.files, t.log, RaisedBy(t.self.model, new_data))
             ELSE [self |-> t.self, files |-> t.files, log |-> t.log, raised |-> FALSE,
                   exc |-> None, anomalies |-> <<>>,
                   scores |-> decision_function(t.self.model, new_data)]
    ELSE IF Raises(self.model, new_data)
    THEN Raised(self, fs, <<>>, RaisedBy(self.model, new_data))
    ELSE PredictUpdate(self, new_data, decision_function(self.model, new_data),
                       predict_labels(self.model, new_data), fs, f, io)

------------------------------------------------------------------------------
(* State *)

\* The response of an operation.  status: 0 returned / 1 raised for a method of
\* the class, the HTTP status for a request.  again: the request repeats the
\* one before it, a DELETE for the same device that was answered 200.
NoResp == [op |-> "none", device_id |-> <<>>, status |-> 0, values |-> <<>>,
           anomalies |-> <<>>, scores |-> <<>>, cleared |-> 0, log |-> <<>>,
           again |-> FALSE, model_type |-> <<>>, obj |-> None, detail |-> <<>>,
           intent |-> None, confidence |-> None, periods |-> 0, forecast |-> <<>>,
           is_anomaly |-> <<>>]

Reply(op, device_id, status) ==
    [NoResp EXCEPT !.op = op, !.device_id = device_id, !.status = status,
                   !.again = /\ op = "clear"
                             /\ resp.op = "clear"
                             /\ resp.device_id = device_id
                             /\ resp.status = 200]

\* The coroutines of detect_anomalies the event loop can hold at a time, and
\* a slot with none.  pc: "waiting" before the handler body starts, "scored"
\* inside predict after model.predict, with the locals it has by then.
Slots == {1, 2}
Idle == [pc |-> "idle", device_id |-> <<>>, values |-> <<>>, scores |-> <<>>,
         predictions |-> <<>>, log |-> <<>>]

Common ==
    /\ running = [s \in Slots |-> Idle]
    /\ anomaly_models = {}
    /\ anomaly_detectors = <<>>
    /\ files = <<>>
    /\ models = {}
    /\ assistant = [device_entities |-> {}, location_entities |-> {}]
    /\ resp = NoResp
    /\ calls = 0

\* A detector object constructed by a caller of the class.
DetectorInit ==
    /\ Common
    /\ detector = AnomalyDetector(Dev)

\* detector.train(data)
TrainCall(data, f, io) ==
    /\ calls < MaxCalls
    /\ LET t == Train(detector, data, files, f, io)
       IN  /\ detector' = t.self
           /\ files' = t.files
           /\ resp' = [Reply("train", detector.device_id, IF t.raised THEN 1 ELSE 0) EXCEPT
                                     !.values = data, !.log = t.log]
    /\ calls' = calls + 1
    /\ UNCHANGED <<anomaly_detectors, models, assistant, running, anomaly_models>>

\* detector.predict(new_data)
PredictCall(new_data, f, io) ==
    /\ calls < MaxCalls
    /\ LET p == Predict(detector, new_data, files, f, io)
       IN  /\ detector' = p.self
           /\ files' = p.files
           /\ resp' = [Reply("predict", detector.device_id, IF p.raised THEN 1 ELSE 0)
                                     EXCEPT
                                     !.values = new_data, !.anomalies = p.anomalies,
                                     !.scores = p.scores, !.log = p.log]
    /\ calls' = calls + 1
    /\ UNCHANGED <<anomaly_detectors, models, assistant, running, anomaly_models>>

\* The library's and the file system's outcomes are drawn only when the call
\* reaches model.fit and save_model: otherwise they are not consulted.
NoFit == [v \in Values |-> 1]
Fits(self, op, data) ==
    LET log == IF op = "train"
               THEN Train(self, data, <<>>, NoFit, "denied").log
               ELSE Predict(self, data, <<>>, NoFit, "denied").log
    IN  \E k \in 1..Len(log) : log[k] = "trained"
FitOutcomes(self, op, data) == IF Fits(self, op, data) THEN DecisionFns ELSE {NoFit}
SaveOutcomes(self, op, data) == IF Fits(self, op, data) THEN IoOutcomes ELSE {"ok"}

DetectorNext ==
    \/ /\ calls < MaxCalls
       /\ \E data \in Inputs :
          \E f \in FitOutcomes(detector, "train", data),
             io \in SaveOutcomes(detector, "train", data) : TrainCall(data, f, io)
    \/ /\ calls < MaxCalls
       /\ \E data \in Inputs :
          \E f \in FitOutcomes(detector, "predict", data),
             io \in SaveOutcomes(detector, "predict", data) : PredictCall(data, f, io)

DetectorSpec == DetectorInit /\ [][DetectorNext]_vars

\* The same two methods on longer histories: a tight baseline and a reading
\* far from it, a buffer trained at a multiple of 100, and a full buffer.
BufferInputs ==
    { Rep(10, Typical), Rep(5, Typical) \o <<Gross>>, Alt(100), Alt(1000) }

BufferNext ==
    \/ /\ calls < MaxCalls
       /\ \E data \in BufferInputs :
          \E f \in FitOutcomes(detector, "train", data),
             io \in SaveOutcomes(detector, "train", data) : TrainCall(data, f, io)
    \/ /\ calls < MaxCalls
       /\ \E data \in BufferInputs :
          \E f \in FitOutcomes(detector, "predict", data),
             io \in SaveOutcomes(detector, "predict", data) : PredictCall(data, f, io)

BufferSpec == DetectorInit /\ [][BufferNext]_vars

------------------------------------------------------------------------------
(* The model store used directly *)

\* A detector as train leaves it.
Trained(device_id, data, f) ==
    [AnomalyDetector(device_id) EXCEPT !.model = Fit(NewForest, data, f),
                                       !.baseline = data,
                                       !.trained = TRUE]

\* The objects handed to save_model.
StoredModels ==
    { AnomalyDetector(Dev),
      Trained(Dev, Alt(10), [v \in Values |-> IF v = Gross THEN -1 ELSE 1]),
      Trained(Dev1, Rep(10, Typical), NoFit) }

\* save_model(device_id, model_type, model)
SaveCall(device_id, model_type, model, io) ==
    /\ calls < MaxStoreCalls
    /\ LET sv == save_model(files, device_id, model_type, model, io)
       IN  /\ files' = sv.files
           /\ resp' = [Reply("save", device_id, 0) EXCEPT
                                     !.model_type = model_type, !.obj = model,
                                     !.log = sv.log]
    /\ calls' = calls + 1
    /\ UNCHANGED <<anomaly_detectors, detector, models, assistant, running, anomaly_models>>

\* load_model(device_id, model_type)
LoadCall(device_id, model_type) ==
    /\ calls < MaxStoreCalls
    /\ LET ld == load_model(files, device_id, model_type)
       IN  resp' = [Reply("load", device_id, 0) EXCEPT
                                     !.model_type = model_type, !.obj = ld.obj,
                                     !.log = ld.log]
    /\ calls' = calls + 1
    /\ UNCHANGED <<anomaly_detectors, files, detector, models, assistant, running, anomaly_models>>

StoreNext ==
    \/ \E device_id \in Devices, model_type \in Kinds, model \in StoredModels,
          io \in IoOutcomes : SaveCall(device_id, model_type, model, io)
    \/ \E device_id \in Devices, model_type \in Kinds : LoadCall(device_id, model_type)

StoreSpec == DetectorInit /\ [][StoreNext]_vars

------------------------------------------------------------------------------
(* The service: registry, handlers, restart *)

Init ==
    /\ Common
    /\ detector = AnomalyDetector(Dev)

\* dict helpers: d[k] = v, del d[k]
DictSet(d, k, v) == [n \in (DOMAIN d) \cup {k} |-> IF n = k THEN v ELSE d[n]]
DictDel(d, ks) == [n \in (DOMAIN d) \ ks |-> d[n]]

GetOrCreateStoreFirst(registry, fs, device_id) ==
    LET loaded == load_model(fs, device_id, AnomalyKind)
    IN  IF loaded.found
        THEN DictSet(registry, device_id, loaded.obj)
        ELSE IF device_id \in DOMAIN registry
        THEN registry
        ELSE DictSet(registry, device_id, AnomalyDetector(device_id))

\* What load_model logs when "Get or create detector" reaches it.
GetOrCreateLog(registry, fs, device_id) ==
    IF device_id \in DOMAIN registry
    THEN <<>>
    ELSE load_model(fs, device_id, AnomalyKind).log

\* "Get or create detector" of detect_anomalies
GetOrCreate(registry, fs, device_id) ==
    IF device_id \in DOMAIN registry
    THEN registry
    ELSE LET loaded == load_model(fs, device_id, AnomalyKind)
         IN  IF loaded.found
             THEN DictSet(registry, device_id, loaded.obj)
             ELSE DictSet(registry, device_id, AnomalyDetector(device_id))

\* The except clauses of detect_anomalies and forecast_usage: an HTTPException
\* is re-raised as it is, any other exception becomes a 500 whose detail is
\* the prefix followed by str(e).
ReRaiseOrWrap(prefix, e) ==
    IF e.type = "HTTPException"
    THEN e
    ELSE HTTPException(500, prefix \o Str(e))

AnomalyFailed == <<"Anomaly detection failed: ">>
TooFewValues == HTTPException(400, <<"Need at least 10 data points for anomaly detection">>)

DetectAnomaliesCheckLate(device_id, values, f, io) ==
    /\ calls < MaxRequests
    /\ LET registry == GetOrCreate(anomaly_detectors, files, device_id)
           loadlog == GetOrCreateLog(anomaly_detectors, files, device_id)
           p == Predict(registry[device_id], values, files, f, io)
           e == ReRaiseOrWrap(AnomalyFailed, p.exc)
       IN  IF Len(values) < MinValues
           THEN /\ resp' = [Reply("anomaly", device_id, TooFewValues.status_code) EXCEPT
                                          !.values = values,
                                          !.detail = TooFewValues.detail]
                /\ anomaly_detectors' = registry
                /\ files' = files
           ELSE /\ anomaly_detectors' = DictSet(registry, device_id, p.self)
                /\ files' = p.files
                /\ resp' = [Reply("anomaly", device_id,
                                  IF p.raised THEN e.status_code ELSE 200)
                                          EXCEPT
                                          !.values = values, !.anomalies = p.anomalies,
                                          !.scores = p.scores,
                                          !.log = loadlog \o p.log,
                                          !.detail = IF p.raised THEN e.detail ELSE <<>>]
    /\ calls' = calls + 1
    /\ UNCHANGED <<detector, models, assistant, running, anomaly_models>>

\* POST /anomaly
DetectAnomalies(device_id, values, f, io) ==
    /\ calls < MaxRequests
    /\ IF Len(values) < MinValues
       THEN LET e == ReRaiseOrWrap(AnomalyFailed, TooFewValues)
            IN  /\ resp' = [Reply("anomaly", device_id, e.status_code) EXCEPT
                                          !.values = values, !.detail = e.detail]
                /\ UNCHANGED <<anomaly_detectors, files>>
       ELSE LET registry == GetOrCreate(anomaly_detectors, files, device_id)
                loadlog == GetOrCreateLog(anomaly_detectors, files, device_id)
                p == Predict(registry[device_id], values, files, f, io)
                e == ReRaiseOrWrap(AnomalyFailed, p.exc)
            IN  /\ anomaly_detectors' = DictSet(registry, device_id, p.self)
                /\ files' = p.files
                /\ resp' = [Reply("anomaly", device_id,
                                  IF p.raised THEN e.status_code ELSE 200)
                                          EXCEPT
                                          !.values = values, !.anomalies = p.anomalies,
                                          !.scores = p.scores,
                                          !.log = loadlog \o p.log,
                                          !.detail = IF p.raised THEN e.detail ELSE <<>>]
    /\ calls' = calls + 1
    /\ UNCHANGED <<detector, models, assistant, running, anomaly_models>>

------------------------------------------------------------------------------
(* Concurrent POST /anomaly requests on the event loop *)

\* A request arrives: its coroutine is created and waits for the loop.
Receive(s, device_id, values) ==
    /\ calls < MaxRaceRequests
    /\ running[s].pc = "idle"
    /\ running' = [running EXCEPT ![s] = [Idle EXCEPT !.pc = "waiting",
                                                      !.device_id = device_id,
                                                      !.values = values]]
    /\ calls' = calls + 1
    /\ UNCHANGED <<anomaly_detectors, files, detector, models, assistant, anomaly_models, resp>>

\* Mutant of OnLoop: handlers run on threads that are switched at any point.
OnLoopPreemptive(s) == TRUE

\* The loop runs the coroutine in slot s: detect_anomalies is an async def
\* whose body has no await, so a handler that started is never suspended and
\* no other coroutine runs before it returns.
OnLoop(s) == \A q \in Slots \ {s} : running[q].pc # "scored"

\* The answer of detect_anomalies after predict returned or raised p.
AnomalyAnswer(device_id, values, loadlog, p) ==
    LET e == ReRaiseOrWrap(AnomalyFailed, p.exc)
    IN  [Reply("anomaly", device_id, IF p.raised THEN e.status_code ELSE 200) EXCEPT
                  !.values = values, !.anomalies = p.anomalies, !.scores = p.scores,
                  !.log = loadlog \o p.log,
                  !.detail = IF p.raised THEN e.detail ELSE <<>>]

\* detect_anomalies from its first line to model.predict inside predict
\* (main.py:257), or to its end when it gets there before: a short request, a
\* first predict that trains, an exception.
Enter(s, f, io) ==
    /\ running[s].pc = "waiting"
    /\ OnLoop(s)
    /\ LET device_id == running[s].device_id
           values == running[s].values
       IN  IF Len(values) < MinValues
           THEN LET e == ReRaiseOrWrap(AnomalyFailed, TooFewValues)
                IN  /\ resp' = [Reply("anomaly", device_id, e.status_code) EXCEPT
                                              !.values = values, !.detail = e.detail]
                    /\ running' = [running EXCEPT ![s] = Idle]
                    /\ UNCHANGED <<anomaly_detectors, files>>
           ELSE LET registry == GetOrCreate(anomaly_detectors, files, device_id)
                    loadlog == GetOrCreateLog(anomaly_detectors, files, device_id)
                    self == registry[device_id]
                IN  IF ~self.trained \/ Raises(self.model, values)
                    THEN LET p == Predict(self, values, files, f, io)
                         IN  /\ anomaly_detectors' = DictSet(registry, device_id, p.self)
                             /\ files' = p.files
                             /\ resp' = AnomalyAnswer(device_id, values, loadlog, p)
                             /\ running' = [running EXCEPT ![s] = Idle]
                    ELSE /\ anomaly_detectors' = registry
                         /\ running' = [running EXCEPT ![s] =
                                [@ EXCEPT !.pc = "scored",
                                          !.scores = decision_function(self.model, values),
                                          !.predictions = predict_labels(self.model, values),
                                          !.log = loadlog]]
                         /\ UNCHANGED <<files, resp>>
    /\ UNCHANGED <<detector, models, assistant, anomaly_models, calls>>

\* The rest of the handler: predict from "Find anomalies" (main.py:260) to its
\* return, on the detector object as it is by then, and the response.
Leave(s, f, io) ==
    /\ running[s].pc = "scored"
    /\ LET device_id == running[s].device_id
           values == running[s].values
           p == PredictUpdate(anomaly_detectors[device_id], values, running[s].scores,
                              running[s].predictions, files, f, io)
       IN  /\ anomaly_detectors' = DictSet(anomaly_detectors, device_id, p.self)
           /\ files' = p.files
           /\ resp' = AnomalyAnswer(device_id, values, running[s].log, p)
           /\ running' = [running EXCEPT ![s] = Idle]
    /\ UNCHANGED <<detector, models, assistant, anomaly_models, calls>>

RacePosted == { Rep(9, Typical), Alt(10), Alt(90) }

RaceNext ==
    \/ \E s \in Slots, values \in RacePosted : Receive(s, Dev, values)
    \/ \E s \in Slots, f \in DecisionFns, io \in IoOutcomes : Enter(s, f, io)
    \/ \E s \in Slots, f \in DecisionFns, io \in IoOutcomes : Leave(s, f, io)

RaceSpec == Init /\ [][RaceNext]_vars

\* MODELS_DIR.glob(f"{device_id}_*.pkl")
Glob(fs, device_id) == {name \in DOMAIN fs : GlobMatch(device_id, name)}

\* DELETE /models/{device_id}.  removed: the files unlinked before an unlink
\* fails; all of model_files when none fails.
ClearDeviceModels(device_id, removed) ==
    /\ calls < MaxRequests
    /\ LET model_files == Glob(files, device_id)
       IN  /\ removed \subseteq model_files
           /\ files' = DictDel(files, removed)
           /\ IF removed = model_files
              THEN /\ anomaly_detectors' = DictDel(anomaly_detectors, {device_id})
                   /\ resp' = [Reply("clear", device_id, 200) EXCEPT
                                             !.cleared = Cardinality(model_files)]
              ELSE /\ anomaly_detectors' = anomaly_detectors
                   /\ resp' = Reply("clear", device_id, 500)
    /\ calls' = calls + 1
    /\ UNCHANGED <<detector, models, assistant, running, anomaly_models>>

\* The process is restarted: module scope is re-run, the models directory stays.
Restart ==
    /\ calls < MaxRequests
    /\ anomaly_detectors' = <<>>
    /\ models' = {}
    /\ assistant' = [device_entities |-> {}, location_entities |-> {}]
    /\ anomaly_models' = {}
    /\ running' = [s \in Slots |-> Idle]
    /\ resp' = Reply("restart", <<>>, 0)
    /\ calls' = calls + 1
    /\ UNCHANGED <<files, detector>>

------------------------------------------------------------------------------
(* The other handlers that answer invalid input *)

ForecastFailed == <<"Forecast failed: ">>
TooFewPoints == HTTPException(400, <<"Need at least 3 data points for forecasting">>)

\* A fitted Prophet model, as save_model pickles it.
ProphetModel(history) == [type |-> "Prophet", history |-> history]

\* np.mean of a window: NaN when a value is NaN, inf when the sum overflows,
\* else the mean, here rounded down to the unit.
RECURSIVE Sum(_)
Sum(s) == IF s = <<>> THEN 0 ELSE s[1] + Sum(Tail(s))
Mean(s) ==
    IF \E i \in 1..Len(s) : s[i] = NaN THEN NaN
    ELSE IF \E i \in 1..Len(s) : s[i] = Huge THEN Huge
    ELSE Sum(s) \div Len(s)

Min(a, b) == IF a <= b THEN a ELSE b
Max(a, b) == IF a >= b THEN a ELSE b

\* The loop of simple_moving_average_forecast with n predictions still to make.
RECURSIVE MovingAverage(_, _, _)
MovingAverage(history, window, n) ==
    IF n <= 0 THEN <<>>
    ELSE LET pred == Mean(LastN(history, window))
         IN  <<pred>> \o MovingAverage(Append(history, pred), window, n - 1)

\* Mutant of simple_moving_average_forecast: one prediction per window slot.
simple_moving_average_forecast_window(history, periods) ==
    LET window == Min(Len(history), 3)
    IN  [predictions |-> MovingAverage(history, window, window),
         confidence |-> Rep(window, 50)]

\* Confidences are in percent.
simple_moving_average_forecast(history, periods) ==
    LET window == Min(Len(history), 3)
    IN  [predictions |-> MovingAverage(history, window, periods),
         confidence |-> Rep(Max(periods, 0), 50)]

\* forecast[...].tail(periods) of the frame Prophet predicts: a row per
\* history point and per future period, each with yhat, yhat_lower, yhat_upper.
TailRows(frame, periods) == IF periods <= 0 THEN <<>> ELSE LastN(frame, periods)

\* max(0.1, min(0.95, 1 - (upper - lower) / (abs(pred) + 0.001))), in percent.
Confidence(row) ==
    LET abs == IF row.yhat < 0 THEN 0 - row.yhat ELSE row.yhat
    IN  Max(10, Min(95, 100 - (100 * (row.yhat_upper - row.yhat_lower)) \div Max(abs, 1)))

ProphetForecast(frame, periods) ==
    LET rows == TailRows(frame, periods)
    IN  [predictions |-> Tuple([i \in 1..Len(rows) |-> Max(0, Min(100, rows[i].yhat))]),
         confidence |-> Tuple([i \in 1..Len(rows) |-> Confidence(rows[i])])]

\* POST /forecast.  prophet: "unavailable" when the import of Prophet failed
\* (PROPHET_AVAILABLE), else whether fitting and predicting with it raised;
\* frame is what model.predict returned when it did not.
ForecastUsage(device_id, history, periods, prophet, frame, io) ==
    /\ calls < MaxRequests
    /\ IF Len(history) < MinHistory
       THEN LET e == ReRaiseOrWrap(ForecastFailed, TooFewPoints)
            IN  /\ resp' = [Reply("forecast", device_id, e.status_code) EXCEPT
                                          !.values = history, !.periods = periods,
                                          !.detail = e.detail]
                /\ files' = files
       ELSE IF Len(history) < ProphetMinHistory \/ prophet = "unavailable"
       THEN LET fc == simple_moving_average_forecast(history, periods)
            IN  /\ resp' = [Reply("forecast", device_id, 200) EXCEPT
                                          !.values = history, !.periods = periods,
                                          !.forecast = fc.predictions,
                                          !.confidence = fc.confidence,
                                          !.model_type = <<"moving_average">>]
                /\ files' = files
       ELSE IF prophet = "ok"
       THEN LET fc == ProphetForecast(frame, periods)
                sv == save_model(files, device_id, ForecastKind, ProphetModel(history), io)
            IN  /\ files' = sv.files
                /\ resp' = [Reply("forecast", device_id, 200) EXCEPT
                                          !.values = history, !.periods = periods,
                                          !.forecast = fc.predictions,
                                          !.confidence = fc.confidence,
                                          !.model_type = <<"prophet">>,
                                          !.log = sv.log]
       ELSE LET fc == simple_moving_average_forecast(history, periods)
            IN  /\ resp' = [Reply("forecast", device_id, 200) EXCEPT
                                          !.values = history, !.periods = periods,
                                          !.forecast = fc.predictions,
                                          !.confidence = fc.confidence,
                                          !.model_type = <<"moving_average_fallback">>]
                /\ files' = files
    /\ calls' = calls + 1
    /\ UNCHANGED <<anomaly_detectors, detector, models, assistant, running, anomaly_models>>

MaintenanceFailed == <<"Predictive maintenance failed: ">>
NoPredictionData == HTTPException(400, <<"No prediction data available">>)

\* The except clause of predictive_maintenance: every exception, an
\* HTTPException included, becomes a 500 whose detail is the prefix followed
\* by str(e).
WrapAll(prefix, e) == HTTPException(500, prefix \o Str(e))

\* train_failure_prediction_model and predict_maintenance_needs are library
\* work on the request's records: with no record both raise on the missing
\* 'timestamp' column, unless the library hands back an empty frame (lib =
\* "empty"); with records they return or raise (lib).
MaintenanceBody(device_type, rows, lib) ==
    IF device_type \notin models /\ (rows = 0 \/ lib = "train_error")
    THEN [models |-> models, raised |-> TRUE,
          exc |-> IF rows = 0 THEN Error("KeyError", <<"'timestamp'">>)
                  ELSE Error("ValueError", <<"train_test_split">>)]
    ELSE LET trained == models \cup {device_type}
         IN  IF rows = 0
             THEN [models |-> trained, raised |-> TRUE,
                   exc |-> IF lib = "empty" THEN NoPredictionData
                           ELSE Error("KeyError", <<"'timestamp'">>)]
             ELSE IF lib = "predict_error"
             THEN [models |-> trained, raised |-> TRUE,
                   exc |-> Error("ValueError", <<"predict_proba">>)]
             ELSE [models |-> trained, raised |-> FALSE, exc |-> None]

\* POST /predictive-maintenance
PredictiveMaintenance(device_id, device_type, rows, lib) ==
    /\ calls < MaxRequests
    /\ LET b == MaintenanceBody(device_type, rows, lib)
           e == WrapAll(MaintenanceFailed, b.exc)
       IN  /\ models' = b.models
           /\ resp' = [Reply("maintenance", device_id,
                             IF b.raised THEN e.status_code ELSE 200) EXCEPT
                                     !.detail = IF b.raised THEN e.detail ELSE <<>>,
                                     !.obj = b.exc]
    /\ calls' = calls + 1
    /\ UNCHANGED <<anomaly_detectors, files, detector, assistant, running, anomaly_models>>

------------------------------------------------------------------------------
(* The ensemble detector and POST /anomaly-detection/advanced *)

\* np.bincount(x).argmax(): the smallest value that occurs most often in x;
\* bincount raises on a negative element.
Count(x, v) == Cardinality({i \in 1..Len(x) : x[i] = v})
BincountArgmax(x) ==
    IF \E i \in 1..Len(x) : x[i] < 0
    THEN [raised |-> TRUE, value |-> 0,
          exc |-> Error("ValueError", <<"'list' argument must have no negative elements">>)]
    ELSE [raised |-> FALSE, exc |-> None,
          value |-> CHOOSE v \in 0..1 :
                      /\ \A w \in 0..1 : Count(x, w) <= Count(x, v)
                      /\ \A w \in 0..1 : Count(x, w) = Count(x, v) => v <= w]

\* AdvancedAnomalyDetector.detect_anomalies for a device type with trained
\* models.  predictions: what each model's predict returned for the rows, in
\* the order the models were stored.  The averaged score is left out.
detect_anomalies(predictions) ==
    LET n == Len(predictions.isolation_forest)
        column(i) == <<predictions.isolation_forest[i], predictions.knn[i],
                       predictions.lof[i]>>
        votes == [i \in 1..n |-> BincountArgmax(column(i))]
    IN  IF \E i \in 1..n : votes[i].raised
        THEN [raised |-> TRUE,
              exc |-> votes[CHOOSE i \in 1..n : votes[i].raised].exc,
              anomaly_prediction |-> <<>>, is_anomaly |-> <<>>]
        ELSE [raised |-> FALSE, exc |-> None,
              anomaly_prediction |-> Tuple([i \in 1..n |-> votes[i].value]),
              is_anomaly |-> Tuple([i \in 1..n |->
                                      IF votes[i].value = 0 - 1 THEN 1 ELSE 0])]

AdvancedFailed == <<"Advanced anomaly detection failed: ">>

\* POST /anomaly-detection/advanced.  lib: whether fitting the three models on
\* the request's rows raised in the library.
AdvancedAnomalyDetection(device_id, device_type, predictions, lib) ==
    /\ calls < MaxEnsembleRequests
    /\ IF device_type \notin anomaly_models /\ lib = "train_error"
       THEN LET e == WrapAll(AdvancedFailed, Error("ValueError", <<"fit">>))
            IN  /\ anomaly_models' = anomaly_models
                /\ resp' = [Reply("advanced", device_id, e.status_code) EXCEPT
                                          !.detail = e.detail]
       ELSE LET d == detect_anomalies(predictions)
                e == WrapAll(AdvancedFailed, d.exc)
            IN  /\ anomaly_models' = anomaly_models \cup {device_type}
                /\ resp' = [Reply("advanced", device_id,
                                  IF d.raised THEN e.status_code ELSE 200) EXCEPT
                                          !.anomalies = d.anomaly_prediction,
                                          !.is_anomaly = d.is_anomaly,
                                          !.detail = IF d.raised THEN e.detail ELSE <<>>]
    /\ calls' = calls + 1
    /\ UNCHANGED <<anomaly_detectors, files, detector, models, assistant, running>>

EnsembleTypes == {<<"fan">>, <<"light">>}

\* What the three fitted models may label n rows.
Labellings(n) ==
    [isolation_forest : [1..n -> {1, 0 - 1}], knn : [1..n -> {0, 1}],
     lof : [1..n -> {0, 1}]]

EnsembleNext ==
    \E device_id \in Devices, device_type \in EnsembleTypes, n \in 1..MaxRows,
       lib \in {"ok", "train_error"} :
        \E predictions \in Labellings(n) :
            AdvancedAnomalyDetection(device_id, device_type, predictions, lib)

EnsembleSpec == Init /\ [][EnsembleNext]_vars

------------------------------------------------------------------------------
(* The conversational assistant and POST /voice/nlp *)

\* Python values that are told apart at run time: a str and a dict.
PyStr(s) == [py |-> "str", value |-> s]
PyDict(items) == [py |-> "dict", items |-> items]

\* d.get(key)
DictGet(d, key) == IF key \in DOMAIN d.items THEN d.items[key] ELSE None

\* obj[key] with a str key: the item of a dict; a TypeError on a str.
Subscript(obj, key) ==
    IF obj.py = "dict"
    THEN [raised |-> FALSE, value |-> obj.items[key], exc |-> None]
    ELSE [raised |-> TRUE, value |-> None,
          exc |-> Error("TypeError", <<"string indices must be integers">>)]

\* A text is a sequence of words and phrases; s.lower() on each of them.
Lower(t) ==
    CASE t = "Lights" -> "lights"
      [] t = "Turn on" -> "turn on"
      [] OTHER -> t
LowerText(text) == Tuple([i \in 1..Len(text) |-> Lower(text[i])])

\* phrase in text_lower
Contains(text_lower, phrase) == \E i \in 1..Len(text_lower) : text_lower[i] = phrase

action_entities ==
    <<"turn on", "turn off", "switch on", "switch off", "dim", "brighten",
      "increase", "decrease", "set", "schedule", "cancel", "status", "what is", "is the">>
greetings ==
    {"hello", "hi", "hey", "greetings", "good morning", "good afternoon", "good evening"}

_is_action_command(text) ==
    \E k \in 1..Len(action_entities) : Contains(LowerText(text), action_entities[k])

_is_greeting(text) == Len(text) = 1 /\ Lower(text[1]) \in greetings

\* next((x for x in entities if x in text_lower), None): the entities are a
\* list made from a set, so any of the matching ones may come first.
Matches(entities, text) ==
    LET found == {x \in entities : Contains(LowerText(text), x)}
    IN  IF found = {} THEN {None} ELSE {PyStr(x) : x \in found}

FirstAction(text) ==
    LET ks == {k \in 1..Len(action_entities) : Contains(LowerText(text), action_entities[k])}
    IN  IF ks = {} THEN None
        ELSE LET act == action_entities[CHOOSE k \in ks : \A j \in ks : k <= j]
             IN  IF act \in {"status", "what is", "is the"} THEN PyStr("status")
                 ELSE PyStr(act)

parse_action_command(text, device, location) ==
    LET first == FirstAction(text)
        action == IF first = None /\ (Contains(LowerText(text), "on")
                                        \/ Contains(LowerText(text), "off"))
                  THEN IF Contains(LowerText(text), "on") THEN PyStr("turn on")
                       ELSE PyStr("turn off")
                  ELSE first
    IN  PyDict([type |-> PyStr("action"), action |-> action, device |-> device,
                location |-> location, original_text |-> text])

\* generate_conversational_response: a reply of the pipeline, or the fixed
\* sentence when the pipeline is not loaded.
conversation(text) ==
    PyDict([type |-> PyStr("conversation"), response |-> PyStr("reply"),
            original_text |-> text])

process_command(text, device, location) ==
    IF _is_action_command(text) /\ ~_is_greeting(text)
    THEN LET parsed_action == parse_action_command(text, device, location)
         IN  IF parsed_action.items.action # None /\ parsed_action.items.device # None
             THEN parsed_action
             ELSE conversation(text)
    ELSE conversation(text)

VoiceFailed == <<"Voice processing failed: ">>

\* The try body of process_voice_command.
VoiceBody(result) ==
    LET is_action == DictGet(result, "action") # None
    IN  IF is_action
        THEN LET type == Subscript(result.items.action, "type")
             IN  IF type.raised
                 THEN [raised |-> TRUE, exc |-> type.exc, intent |-> None,
                       confidence |-> None]
                 ELSE [raised |-> FALSE, exc |-> None, intent |-> type.value,
                       confidence |-> PyStr("0.95")]
        ELSE [raised |-> FALSE, exc |-> None, intent |-> PyStr("conversational"),
              confidence |-> PyStr("0.8")]

\* POST /voice/nlp
ProcessVoiceCommand(text, device, location) ==
    /\ calls < MaxVoiceRequests
    /\ LET b == VoiceBody(process_command(text, device, location))
           e == WrapAll(VoiceFailed, b.exc)
       IN  resp' = [Reply("voice", <<>>, IF b.raised THEN e.status_code ELSE 200) EXCEPT
                                 !.values = text,
                                 !.intent = b.intent, !.confidence = b.confidence,
                                 !.detail = IF b.raised THEN e.detail ELSE <<>>]
    /\ calls' = calls + 1
    /\ UNCHANGED <<anomaly_detectors, files, detector, models, assistant, running, anomaly_models>>

\* POST /ai/update-entities
UpdateAiEntities(devices, locations) ==
    /\ calls < MaxVoiceRequests
    /\ assistant' = [device_entities |-> {Lower(d) : d \in devices},
                     location_entities |-> {Lower(l) : l \in locations}]
    /\ resp' = Reply("update-entities", <<>>, 200)
    /\ calls' = calls + 1
    /\ UNCHANGED <<anomaly_detectors, files, detector, models, running, anomaly_models>>

Texts ==
    { <<"turn on", "the", "lights", "in", "classroom 101">>,
      <<"Turn on", "the", "fan">>,
      <<"what is", "the", "projector", "doing">>,
      <<"hello">>,
      <<"how", "are", "you">> }
DeviceLists == { {}, {"Lights"}, {"fan", "projector"}, {"Lights", "fan"} }
LocationLists == { {}, {"classroom 101"}, {"classroom 101", "lab"} }

VoiceNext ==
    \/ \E text \in Texts :
         \E device \in Matches(assistant.device_entities, text),
            location \in Matches(assistant.location_entities, text) :
              ProcessVoiceCommand(text, device, location)
    \/ \E devices \in DeviceLists, locations \in LocationLists :
              UpdateAiEntities(devices, locations)

VoiceSpec == Init /\ [][VoiceNext]_vars

\* The detector a POST /anomaly for device_id runs predict on, if it gets there.
Resolved(device_id) == GetOrCreate(anomaly_detectors, files, device_id)[device_id]

Next ==
    \/ /\ calls < MaxRequests
       /\ \E device_id \in Devices, values \in Posted :
            \E f \in IF Len(values) < MinValues THEN {NoFit}
                      ELSE FitOutcomes(Resolved(device_id), "predict", values),
               io \in IF Len(values) < MinValues THEN {"ok"}
                       ELSE SaveOutcomes(Resolved(device_id), "predict", values) :
                 DetectAnomalies(device_id, values, f, io)
    \/ \E device_id \in Devices, removed \in SUBSET (DOMAIN files) :
            ClearDeviceModels(device_id, removed)
    \/ Restart

Spec == Init /\ [][Next]_vars

\* The requests of ApiSpec: value lists that are too short, valid, and not
\* finite; histories below and above the two thresholds of /forecast.
ApiPosted == { Rep(9, Typical), Alt(10), Rep(10, NaN), Rep(9, Typical) \o <<Huge>> }
Histories == { Rep(2, Typical), <<5, 100, 5>>, Rep(7, Typical), <<5, NaN, 5>> }
Periods == {1, 2}
DeviceTypes == { <<"fan">> }
RowCounts == {0, 2}

ProphetOutcomes(history) ==
    IF Len(history) >= ProphetMinHistory THEN {"unavailable", "error", "ok"}
    ELSE {"unavailable"}

\* What model.predict may return for the history and the future periods.
ProphetFrames(history, periods, prophet) ==
    IF prophet = "ok"
    THEN { Rep(Len(history) + periods, row) :
             row \in { [yhat |-> 50, yhat_lower |-> 45, yhat_upper |-> 55],
                       [yhat |-> 150, yhat_lower |-> 0 - 50, yhat_upper |-> 350] } }
    ELSE { <<>> }

ApiNext ==
    \/ /\ calls < MaxApiRequests
       /\ \E device_id \in Devices, values \in ApiPosted :
            \E f \in IF Len(values) < MinValues THEN {NoFit}
                      ELSE FitOutcomes(Resolved(device_id), "predict", values),
               io \in IF Len(values) < MinValues THEN {"ok"}
                       ELSE SaveOutcomes(Resolved(device_id), "predict", values) :
                 DetectAnomalies(device_id, values, f, io)
    \/ /\ calls < MaxApiRequests
       /\ \E device_id \in Devices, history \in Histories, periods \in Periods :
            \E prophet \in ProphetOutcomes(history) :
               \E frame \in ProphetFrames(history, periods, prophet),
                  io \in IF prophet = "ok" THEN IoOutcomes ELSE {"ok"} :
                 ForecastUsage(device_id, history, periods, prophet, frame, io)
    \/ /\ calls < MaxApiRequests
       /\ \E device_type \in DeviceTypes, rows \in RowCounts,
             lib \in {"ok", "train_error", "predict_error", "empty"} :
                 PredictiveMaintenance(Dev, device_type, rows, lib)

ApiSpec == Init /\ [][ApiNext]_vars

------------------------------------------------------------------------------
(* Properties *)

\* The step just taken is an operation op (every operation counts a call).
Did(op) == calls' = calls + 1 /\ resp'.op = op

InLog(log, event) == \E k \in 1..Len(log) : log[k] = event

\* The same key is bound to the same value in both dictionaries, or in neither.
SameAt(d1, d2, k) ==
    /\ (k \in DOMAIN d1) <=> (k \in DOMAIN d2)
    /\ k \in DOMAIN d1 => d1[k] = d2[k]

OwnFile(device_id) == FileName(device_id, AnomalyKind)

\* The store holds the detector's state under its own name.
PersistedAs(fs, det) ==
    /\ OwnFile(det.device_id) \in DOMAIN fs
    /\ fs[OwnFile(det.device_id)].ok
    /\ Unpickle(fs[OwnFile(det.device_id)]) = det

\* save_model ran once inside one train.
TrainedOnce(log) == log \in {<<"saved", "trained">>, <<"save_error", "trained">>}

\* The observations of X that model labels normal, in input order.
NormalsOf(model, X) == SelectSeq(X, LAMBDA v : model.score[v] >= 0)

\* C1: whenever trained = true after a predict call returns, len(baseline) is at
\* most 1000, the first call on an untrained detector included.
C1_BaselineAtMost1000 ==
    (resp.op = "predict" /\ resp.status = 0 /\ detector.trained)
        => Len(detector.baseline) <= 1000

\* C2: predict on an untrained detector with fewer than 10 observations returns
\* an empty anomaly list without raising; the detector stays untrained, its
\* baseline empty, and nothing is persisted.
C2_ShortInputReturnsEmpty ==
    [][ (Did("predict") /\ ~detector.trained /\ Len(resp'.values) < 10)
            => /\ resp'.status = 0
               /\ resp'.anomalies = <<>>
               /\ ~detector'.trained
               /\ detector'.baseline = <<>>
               /\ files' = files ]_vars

\* C3: a POST /anomaly for device A leaves the registry entry and the persisted
\* file of every other device as they were, and what it does to A's entry, A's
\* file and its response is what the same request does when the registry and
\* the store hold A's entry and A's file alone.
C3_Alone(a) ==
    LET reg0 == [d \in (DOMAIN anomaly_detectors) \cap {a} |-> anomaly_detectors[d]]
        fs0 == [n \in (DOMAIN files) \cap {OwnFile(a)} |-> files[n]]
        values == resp'.values
    IN  IF Len(values) < 10
        THEN /\ resp'.status = 400
             /\ SameAt(anomaly_detectors, anomaly_detectors', a)
             /\ SameAt(files, files', OwnFile(a))
        ELSE /\ a \in DOMAIN anomaly_detectors'
             /\ \E io \in IoOutcomes :
                  LET reg == GetOrCreate(reg0, fs0, a)
                      p == Predict(reg[a], values, fs0,
                                   anomaly_detectors'[a].model.score, io)
                  IN  /\ anomaly_detectors'[a] = p.self
                      /\ SameAt(p.files, files', OwnFile(a))
                      /\ resp'.anomalies = p.anomalies
                      /\ resp'.scores = p.scores

C3_CrossDeviceIsolation ==
    [][ Did("anomaly")
            => /\ \A b \in Devices \ {resp'.device_id} :
                    /\ SameAt(anomaly_detectors, anomaly_detectors', b)
                    /\ SameAt(files, files', OwnFile(b))
               /\ C3_Alone(resp'.device_id) ]_vars

\* C3 witness: both devices hold a detector and a file of their own after a request.
C3_Witness ==
    /\ resp.op = "anomaly" /\ resp.status = 200
    /\ Devices \subseteq DOMAIN anomaly_detectors
    /\ \A d \in Devices : OwnFile(d) \in DOMAIN files
    /\ anomaly_detectors[Dev].baseline # anomaly_detectors[Dev1].baseline

\* C4: DELETE /models/{A} leaves the persisted files and the cached detector of
\* every other device B unchanged and counts only A's files in "cleared", also
\* when B is A followed by an underscore and more.
C4_ClearOnlyOwnDevice ==
    [][ Did("clear")
            => /\ \A b \in Devices \ {resp'.device_id} :
                    /\ SameAt(files, files', OwnFile(b))
                    /\ SameAt(anomaly_detectors, anomaly_detectors', b)
               /\ resp'.status = 200 =>
                    resp'.cleared = Cardinality({OwnFile(resp'.device_id)} \cap DOMAIN files)
      ]_vars

\* C5: after a DELETE /models/{d} that returned, d has no persisted file and no
\* registry entry; a DELETE for d right after one returns 200 with cleared = 0
\* and changes neither the store nor the registry.
C5_ClearIdempotent ==
    [][ Did("clear")
            => /\ resp'.status = 200 =>
                    /\ OwnFile(resp'.device_id) \notin DOMAIN files'
                    /\ resp'.device_id \notin DOMAIN anomaly_detectors'
               /\ (resp.op = "clear" /\ resp.status = 200
                        /\ resp.device_id = resp'.device_id) =>
                    /\ resp'.status = 200
                    /\ resp'.cleared = 0
                    /\ files' = files
                    /\ anomaly_detectors' = anomaly_detectors ]_vars

\* C5 witness: the second of two DELETEs for a device, the first of which
\* removed the device's file, has been answered.
C5_Witness ==
    /\ resp.op = "clear" /\ resp.again
    /\ resp.status = 200 /\ resp.cleared = 0
    /\ calls = 3

\* C6 as stated: predict on an untrained detector with n >= 10 observations
\* returns no anomalies and n scores, leaves the detector trained on exactly the
\* input, and the detector has been persisted.
C6_FirstPredictPersisted ==
    [][ (Did("predict") /\ ~detector.trained /\ Len(resp'.values) >= 10)
            => /\ resp'.status = 0
               /\ resp'.anomalies = <<>>
               /\ Len(resp'.scores) = Len(resp'.values)
               /\ detector'.trained
               /\ detector'.baseline = resp'.values
               /\ PersistedAs(files', detector') ]_vars

\* C6 amended: ... and save_model has been called once for the detector; the
\* store holds the detector's state when that write succeeded.
C6_FirstPredictTrains ==
    [][ (Did("predict") /\ ~detector.trained /\ Len(resp'.values) >= 10)
            => /\ resp'.status = 0
               /\ resp'.anomalies = <<>>
               /\ Len(resp'.scores) = Len(resp'.values)
               /\ detector'.trained
               /\ detector'.baseline = resp'.values
               /\ TrainedOnce(resp'.log)
               /\ InLog(resp'.log, "saved") => PersistedAs(files', detector') ]_vars

\* C6 witness: the first call on the detector was a predict with 10 or more
\* observations, and its save succeeded.
C6_Witness ==
    /\ calls = 1 /\ resp.op = "predict" /\ resp.status = 0
    /\ Len(resp.values) >= 10
    /\ resp.log = <<"saved", "trained">>
    /\ detector.baseline = resp.values

\* C7: predict on a trained detector, when it returns, gives one score per
\* input observation and the strictly increasing list of the 0-based indices
\* that the model of the start of the call labels outlier.
C7_AnomalyIndices ==
    [][ (Did("predict") /\ detector.trained /\ resp'.status = 0)
            => LET X == resp'.values
                   A == resp'.anomalies
               IN  /\ Len(resp'.scores) = Len(X)
                   /\ \A k \in 1..Len(A) : A[k] \in 0..(Len(X) - 1)
                   /\ \A k \in 1..(Len(A) - 1) : A[k] < A[k + 1]
                   /\ {A[k] : k \in 1..Len(A)}
                        = {i \in 0..(Len(X) - 1) : detector.model.score[X[i + 1]] < 0} ]_vars

\* C7 witness: a trained detector flagged every second point of a mixed input.
C7_Witness ==
    /\ resp.op = "predict" /\ resp.status = 0
    /\ resp.anomalies = <<1, 3, 5, 7, 9>>

\* C8: after predict on a trained detector with baseline B and input X, the
\* baseline is the last 1000 elements of B followed by the normal-labeled
\* elements of X in input order.
C8_BaselineIsLast1000 ==
    [][ (Did("predict") /\ detector.trained /\ resp'.status = 0)
            => LET all == detector.baseline \o NormalsOf(detector.model, resp'.values)
               IN  detector'.baseline =
                     IF Len(all) <= 1000 THEN all
                     ELSE SubSeq(all, Len(all) - 999, Len(all)) ]_vars

\* The buffer length after the normal points of the call are appended and the
\* buffer is truncated.
C9_LenAfter ==
    LET n == Len(detector.baseline) + Len(NormalsOf(detector.model, resp'.values))
    IN  IF n > 1000 THEN 1000 ELSE n

C9_Case ==
    /\ Did("predict") /\ detector.trained /\ resp'.status = 0
    /\ Len(NormalsOf(detector.model, resp'.values)) > 0

\* C9 as stated: a predict on a trained detector that appends a normal point
\* retrains on the full buffer and persists the detector when the buffer length
\* is then a multiple of 100, and neither retrains nor persists otherwise.
C9_RetrainPersisted ==
    [][ C9_Case
            => IF C9_LenAfter % 100 = 0
               THEN /\ Len(detector'.baseline) = C9_LenAfter
                    /\ detector'.model.fitted
                    /\ detector'.model.X = detector'.baseline
                    /\ PersistedAs(files', detector')
               ELSE /\ detector'.model = detector.model
                    /\ files' = files
                    /\ resp'.log = <<>> ]_vars

\* C9 amended: ... retrains on the full buffer and calls save_model once, the
\* store holding the detector's state when that write succeeded ...
C9_RetrainOnMultiple ==
    [][ C9_Case
            => IF C9_LenAfter % 100 = 0
               THEN /\ Len(detector'.baseline) = C9_LenAfter
                    /\ detector'.model.fitted
                    /\ detector'.model.X = detector'.baseline
                    /\ TrainedOnce(resp'.log)
                    /\ InLog(resp'.log, "saved") => PersistedAs(files', detector')
               ELSE /\ detector'.model = detector.model
                    /\ files' = files
                    /\ resp'.log = <<>> ]_vars

\* C9 witness: the second call, a predict, brought the buffer to 100 entries,
\* retrained and saved.
C9_Witness ==
    /\ calls = 2 /\ resp.op = "predict" /\ resp.status = 0
    /\ Len(resp.values) = 90
    /\ Len(detector.baseline) = 100
    /\ detector.model.X = detector.baseline
    /\ resp.log = <<"saved", "trained">>

\* C10: train(data) with len(data) >= 10 leaves trained = true, baseline = data,
\* a model fitted on data and, when the save succeeded, the persisted entry
\* equal to the resulting detector.
C10_TrainPostcondition ==
    [][ (Did("train") /\ Len(resp'.values) >= 10)
            => /\ detector'.trained
               /\ detector'.baseline = resp'.values
               /\ detector'.model.fitted
               /\ detector'.model.X = resp'.values
               /\ InLog(resp'.log, "saved") => PersistedAs(files', detector') ]_vars

\* C10 witness: a train call on 10 or more observations whose save succeeded.
C10_Witness ==
    /\ resp.op = "train" /\ Len(resp.values) >= 10
    /\ detector.trained /\ detector.baseline = resp.values
    /\ resp.log = <<"saved", "trained">>

\* C11: train(data) with len(data) < 10 returns without raising and leaves
\* trained, baseline, the model and the persisted entry of the device as they
\* were; save_model is not called.
C11_ShortTrainNoOp ==
    [][ (Did("train") /\ Len(resp'.values) < 10)
            => /\ resp'.status = 0
               /\ detector' = detector
               /\ files' = files
               /\ resp'.log = <<>> ]_vars

\* C11 witness: a train call with 9 observations on a detector that is trained
\* and persisted.
C11_Witness ==
    /\ calls = 2 /\ resp.op = "train" /\ resp.status = 0
    /\ Len(resp.values) = 9
    /\ detector.trained
    /\ PersistedAs(files, detector)

\* C12: trained goes from false to true only in a call in which train ran on
\* at least 10 observations, and a trained detector is trained after every
\* later train and predict call.
C12_TrainedOneWay ==
    [][ /\ detector.trained => detector'.trained
        /\ (~detector.trained /\ detector'.trained)
                => /\ InLog(resp'.log, "trained")
                   /\ Len(resp'.values) >= 10
                   /\ detector'.baseline = resp'.values ]_vars

\* C12 witness: a trained detector, persisted by its first training, has been
\* trained again on other data by the second call.
C12_Witness ==
    /\ calls = 2 /\ detector.trained
    /\ InLog(resp.log, "trained")
    /\ OwnFile(Dev) \in DOMAIN files
    /\ files[OwnFile(Dev)].ok /\ files[OwnFile(Dev)].obj.trained
    /\ files[OwnFile(Dev)].obj.baseline # detector.baseline

\* The detectors of a state: the one used through its class, the cached ones,
\* and the ones a load would return from the store.
Detectors ==
    {detector}
        \cup {anomaly_detectors[d] : d \in DOMAIN anomaly_detectors}
        \cup {Unpickle(files[n]) : n \in {m \in DOMAIN files : files[m].ok}}

\* C13: in every reachable state, every detector (fresh, trained in memory or
\* loaded from disk) that is trained has at least 10 baseline entries, and
\* every detector that is not trained has an empty baseline.
C13_TrainedIffBaseline ==
    \A det \in Detectors :
        /\ det.trained => Len(det.baseline) >= 10
        /\ ~det.trained => det.baseline = <<>>

\* C13 witness: a cached trained detector whose baseline has grown past the
\* snapshot persisted for it, itself a trained detector of 10 or more entries.
C13_Witness ==
    /\ Dev \in DOMAIN anomaly_detectors
    /\ anomaly_detectors[Dev].trained
    /\ OwnFile(Dev) \in DOMAIN files /\ files[OwnFile(Dev)].ok
    /\ Len(anomaly_detectors[Dev].baseline) > Len(files[OwnFile(Dev)].obj.baseline)
    /\ Len(files[OwnFile(Dev)].obj.baseline) >= 10

\* C14: an accepted POST /anomaly for device d runs predict on the cached
\* detector when d is in the registry, whatever the store holds; otherwise on
\* the detector loaded from the store when the store holds one for d;
\* otherwise on a fresh untrained detector with an empty baseline.  Afterwards
\* the registry holds for d the detector predict ran on, and the other entries
\* are the ones it had.
C14_Used(d) ==
    IF d \in DOMAIN anomaly_detectors
    THEN anomaly_detectors[d]
    ELSE IF OwnFile(d) \in DOMAIN files /\ files[OwnFile(d)].ok
    THEN files[OwnFile(d)].obj
    ELSE [device_id |-> d, model |-> NewForest, trained |-> FALSE, baseline |-> <<>>]

C14_ResolutionOrder ==
    [][ (Did("anomaly") /\ resp'.status # 400)
            => LET d == resp'.device_id
               IN  /\ DOMAIN anomaly_detectors' = (DOMAIN anomaly_detectors) \cup {d}
                   /\ d \in DOMAIN anomaly_detectors => ~InLog(resp'.log, "loaded")
                   /\ \E io \in IoOutcomes :
                        LET p == Predict(C14_Used(d), resp'.values, files,
                                         anomaly_detectors'[d].model.score, io)
                        IN  /\ anomaly_detectors'[d] = p.self
                            /\ files' = p.files
                            /\ resp'.anomalies = p.anomalies
                            /\ resp'.scores = p.scores ]_vars

\* C14 witness: after a restart the detector of the request was loaded from
\* the store, cached, and has grown past the persisted snapshot.
C14_Witness ==
    /\ resp.op = "anomaly" /\ resp.status = 200
    /\ resp.log = <<"loaded">>
    /\ resp.device_id \in DOMAIN anomaly_detectors
    /\ Len(anomaly_detectors[resp.device_id].baseline)
            > Len(files[OwnFile(resp.device_id)].obj.baseline)

\* C15: a load_model(d, k) after a successful save_model(d, k, m) returns a
\* value equal to m, whatever was saved and loaded for other pairs in between:
\* right after the save the pair loads as m, a save for one pair leaves what
\* every other pair loads as it was, and a load changes nothing in the store.
C15_Pairs == Devices \X Kinds

C15_RoundTrip ==
    [][ /\ Did("save") =>
            /\ InLog(resp'.log, "saved") =>
                    /\ load_model(files', resp'.device_id, resp'.model_type).found
                    /\ load_model(files', resp'.device_id, resp'.model_type).obj = resp'.obj
            /\ \A pair \in C15_Pairs \ {<<resp'.device_id, resp'.model_type>>} :
                    load_model(files', pair[1], pair[2]) = load_model(files, pair[1], pair[2])
        /\ Did("load") =>
            /\ files' = files
            /\ resp'.obj = load_model(files, resp'.device_id, resp'.model_type).obj ]_vars

\* C15 witness: a trained detector was saved, another pair was saved, and the
\* third call loaded the detector back.
C15_Witness ==
    /\ calls = 3 /\ resp.op = "load"
    /\ resp.obj \in StoredModels /\ resp.obj.trained
    /\ Cardinality({n \in DOMAIN files : files[n].ok}) = 2
    /\ files[FileName(resp.device_id, resp.model_type)].obj = resp.obj

\* C16: when the write fails inside save_model, the train that called it
\* returns without raising, what load_model returns for the detector's pair is
\* what it returned before the call, and the detector is trained with the new
\* baseline in memory.
C16_FailedWriteKeepsPrevious ==
    [][ (Did("train") /\ InLog(resp'.log, "save_error"))
            => /\ resp'.status = 0
               /\ load_model(files', Dev, AnomalyKind).obj
                        = load_model(files, Dev, AnomalyKind).obj
               /\ detector'.trained
               /\ detector'.baseline = resp'.values ]_vars

\* C17: load_model(d, k) does not raise; it returns the object pickled in the
\* file of (d, k) when that file exists and deserializes, None when the file
\* is absent or does not deserialize, and leaves the store and the registry
\* unchanged.
C17_LoadNeverRaises ==
    [][ Did("load")
            => LET path == resp'.device_id \o <<"_">> \o resp'.model_type \o <<".pkl">>
               IN  /\ resp'.status = 0
                   /\ resp'.obj = IF path \in DOMAIN files /\ files[path].ok
                                  THEN files[path].obj
                                  ELSE None
                   /\ files' = files
                   /\ anomaly_detectors' = anomaly_detectors ]_vars

\* C17 witness: a load of a file that exists and does not deserialize has
\* returned None.
C17_Witness ==
    /\ resp.op = "load" /\ resp.status = 0
    /\ resp.log = <<"loaded", "load_error">>
    /\ resp.obj = None
    /\ ~files[FileName(resp.device_id, resp.model_type)].ok

\* C18: POST /anomaly with fewer than 10 values is answered 400 and changes
\* nothing: no detector is created, loaded or cached, no cached detector
\* changes, and the store is as it was.
C18_ShortRequestRejected ==
    [][ (Did("anomaly") /\ Len(resp'.values) < 10)
            => /\ resp'.status = 400
               /\ anomaly_detectors' = anomaly_detectors
               /\ files' = files
               /\ resp'.log = <<>>
               /\ resp'.anomalies = <<>> /\ resp'.scores = <<>> ]_vars

\* C18 witness: a request with 9 values was rejected for a device that has a
\* persisted detector and no cached one.
C18_Witness ==
    /\ resp.op = "anomaly" /\ resp.status = 400
    /\ Len(resp.values) = 9
    /\ resp.device_id \notin DOMAIN anomaly_detectors
    /\ OwnFile(resp.device_id) \in DOMAIN files
    /\ files[OwnFile(resp.device_id)].ok

C20_GenericServerError ==
    [][ Did("anomaly")
            => /\ (Len(resp'.values) >= 10 /\ ~Finite(resp'.values))
                    => resp'.status = 500
               /\ (resp'.status = 500 /\ resp.op = "anomaly" /\ resp.status = 500)
                    => resp'.detail = resp.detail ]_vars

\* C21: a detector trained on ten times the value 5 that predicts on
\* [5, 5, 5, 5, 5, 100] returns an anomaly list that contains index 5.
C21_FlagsGrossOutlier ==
    [][ (Did("predict") /\ detector.trained
            /\ detector.model.X = <<5, 5, 5, 5, 5, 5, 5, 5, 5, 5>>
            /\ resp'.values = <<5, 5, 5, 5, 5, 100>>)
            => /\ resp'.status = 0
               /\ \E k \in 1..Len(resp'.anomalies) : resp'.anomalies[k] = 5 ]_vars

\* C22: POST /voice/nlp answers every command text with status 200, an intent
\* and a confidence, after any sequence of /ai/update-entities calls, whether
\* the device named in an action command is registered or not.
C22_VoiceAlwaysAnswers ==
    [][ Did("voice")
            => /\ resp'.status = 200
               /\ resp'.intent # None
               /\ resp'.confidence # None ]_vars

C24_CanInterleave ==
    \A s \in Slots, q \in Slots :
        (/\ running[s].pc = "scored"
         /\ running[q].pc = "waiting"
         /\ running[q].device_id = running[s].device_id)
        => ENABLED (\E f \in DecisionFns, io \in IoOutcomes : Enter(q, f, io))

\* C24 (amended): concurrent POST /anomaly requests for a device never
\* interleave inside predict.  The only handler step taken (requests may
\* arrive) after a request's scoring is its own buffer update, and what the
\* request leaves behind (detector and files) is what the whole handler, run
\* alone at that point, leaves behind: two requests end as one of their two
\* serial orders.
C24_HandlersAreSerial ==
    [][ \A s \in Slots :
          (running[s].pc = "scored" /\ calls' = calls)
          => /\ running'[s].pc = "idle"
             /\ \E f \in DecisionFns, io \in IoOutcomes :
                  LET device_id == running[s].device_id
                      p == Predict(anomaly_detectors[device_id], running[s].values,
                                   files, f, io)
                  IN  /\ anomaly_detectors' = DictSet(anomaly_detectors, device_id, p.self)
                      /\ files' = p.files
                      /\ resp'.anomalies = p.anomalies ]_vars

\* C24 witness: a request has scored its values on a trained detector while
\* another request for the same device waits for the loop.
C24_Witness ==
    \E s \in Slots, q \in Slots :
        /\ running[s].pc = "scored"
        /\ running[q].pc = "waiting"
        /\ running[q].device_id = running[s].device_id
        /\ Len(running[q].values) >= MinValues

\* The buffer length at the last training, and whether the call retrained.
C25_LastTrained == Len(detector.model.X)
C25_Retrained == InLog(resp'.log, "trained")

\* C25 (as stated): every predict call on a trained detector that appends
\* retrains exactly when the buffer length after the append minus the buffer
\* length at the last training is at least 100.
C25_TriggersEquivalent ==
    [][ C9_Case => (C25_Retrained <=> C9_LenAfter - C25_LastTrained >= RetrainEvery) ]_vars

\* C25 (amended): the two triggers agree on the calls that append to a buffer
\* last trained at a multiple of 100 and leave it longer by at most 100.
C25_TriggersAgreeInStep ==
    [][ (/\ C9_Case
         /\ C25_LastTrained % RetrainEvery = 0
         /\ C25_LastTrained < C9_LenAfter
         /\ C9_LenAfter <= C25_LastTrained + RetrainEvery)
            => (C25_Retrained <=> C9_LenAfter - C25_LastTrained >= RetrainEvery) ]_vars

\* C25 witness: a buffer trained at 100 entries grew to 200 in one predict
\* call, which retrained.
C25_Witness ==
    /\ calls = 2 /\ resp.op = "predict" /\ resp.status = 0
    /\ Len(resp.values) = 100
    /\ Len(detector.baseline) = 200
    /\ Len(detector.model.X) = 200
    /\ InLog(resp.log, "trained")

\* The models that label row i an outlier.
C26_OutlierVotes(predictions, i) ==
    (IF predictions.isolation_forest[i] = 0 - 1 THEN 1 ELSE 0)
        + predictions.knn[i] + predictions.lof[i]

\* C26: for a device type with trained models, detect_anomalies returns
\* without raising and sets is_anomaly = 1 exactly on the rows that at least
\* two of the three models label outlier (isolation forest -1, KNN 1, LOF 1).
C26_MajorityVote ==
    [][ \A device_id \in Devices, device_type \in EnsembleTypes, n \in 1..MaxRows :
          \A predictions \in Labellings(n) :
            AdvancedAnomalyDetection(device_id, device_type, predictions, "ok")
            => /\ resp'.status = 200
               /\ Len(resp'.is_anomaly) = n
               /\ \A i \in 1..n :
                    resp'.is_anomaly[i] = 1 <=> C26_OutlierVotes(predictions, i) >= 2 ]_vars

\* C27: every training of a detector, by train or by a retraining predict,
\* gives it a new model instance and leaves the old instance as it was: a
\* reference to the model taken before the call still denotes the old,
\* unchanged model.  (The instance a reference denotes is unchanged exactly
\* when it is no longer the detector's, or the detector's has the old content.)
C27_ModelReplaced ==
    [][ ((Did("train") \/ Did("predict")) /\ InLog(resp'.log, "trained"))
            => \/ detector'.model.instance # detector.model.instance
               \/ detector'.model = detector.model ]_vars

\* A predict call on a detector whose buffer holds 1000 entries labels at
\* least one observation normal.
C28_Case ==
    /\ Did("predict") /\ detector.trained /\ resp'.status = 0
    /\ Len(detector.baseline) = MaxBaseline
    /\ Len(NormalsOf(detector.model, resp'.values)) > 0

\* C28 (as stated): once the buffer has reached 1000 entries, every predict
\* call that labels an observation normal retrains the model, persists the
\* detector and leaves the buffer at exactly 1000 entries.
C28_FullBufferPersists ==
    [][ C28_Case
            => /\ Len(detector'.baseline) = MaxBaseline
               /\ detector'.model.X = detector'.baseline
               /\ TrainedOnce(resp'.log)
               /\ PersistedAs(files', detector') ]_vars

\* C28 (amended): ... retrains the model on the buffer, calls save_model once,
\* the store holding the detector when that write succeeded, and leaves the
\* buffer at exactly 1000 entries.
C28_FullBufferRetrains ==
    [][ C28_Case
            => /\ Len(detector'.baseline) = MaxBaseline
               /\ detector'.model.X = detector'.baseline
               /\ TrainedOnce(resp'.log)
               /\ InLog(resp'.log, "saved") => PersistedAs(files', detector') ]_vars

\* C28 witness: a predict on a full buffer took in new normal observations,
\* retrained and saved, the buffer still at 1000 entries.
C28_Witness ==
    /\ calls = 2 /\ resp.op = "predict" /\ resp.status = 0
    /\ Len(detector.baseline) = MaxBaseline
    /\ detector.baseline # Alt(MaxBaseline)
    /\ detector.model.X = detector.baseline
    /\ resp.log = <<"saved", "trained">>

\* The store holds a readable entry for device d.
C29_Readable(fs, d) == OwnFile(d) \in DOMAIN fs /\ fs[OwnFile(d)].ok

\* Every readable entry of the store is a detector as a train leaves it:
\* trained, with the data of that train as its baseline.
C29_Snapshots(fs) ==
    \A d \in Devices :
        C29_Readable(fs, d)
        => LET det == fs[OwnFile(d)].obj
           IN  /\ det.trained
               /\ det.model.fitted
               /\ det.baseline = det.model.X

\* The detector as its last training left it: the observations appended since
\* are dropped.
C29_AtLastTraining(det) == [det EXCEPT !.baseline = det.model.X]

\* C29 (as stated): every persisted detector is the snapshot of a train, and
\* what the store holds for a trained detector is that detector as of its
\* last training, so that a restart resumes from the last training.
C29_PersistedIsLastTraining ==
    /\ C29_Snapshots(files)
    /\ \A d \in DOMAIN anomaly_detectors :
            anomaly_detectors[d].trained
            => /\ C29_Readable(files, d)
               /\ files[OwnFile(d)].obj = C29_AtLastTraining(anomaly_detectors[d])

\* C29 (amended): every readable persisted detector is the snapshot of a
\* train.  A request that did not train leaves the store as it was; a training
\* whose write succeeded leaves its snapshot in the store; one whose write
\* failed leaves the store as it was or the device's entry unreadable.  The
\* first request for a device after a restart runs on the snapshot the store
\* holds when it is readable: a trained detector with the baseline of the
\* training that wrote it.
C29_PersistedIsATraining ==
    [][ /\ C29_Snapshots(files')
        /\ \A d \in Devices :
              (Did("anomaly") /\ resp'.device_id = d /\ Len(resp'.values) >= MinValues)
              => /\ ~InLog(resp'.log, "trained") => files' = files
                 /\ InLog(resp'.log, "saved")
                      => /\ C29_Readable(files', d)
                         /\ files'[OwnFile(d)].obj = anomaly_detectors'[d]
                         /\ anomaly_detectors'[d].baseline = anomaly_detectors'[d].model.X
                 /\ InLog(resp'.log, "save_error")
                      => \/ files' = files
                         \/ files' = Put(files, OwnFile(d), Corrupt)
                 /\ (d \notin DOMAIN anomaly_detectors /\ C29_Readable(files, d))
                      => /\ Resolved(d) = files[OwnFile(d)].obj
                         /\ Resolved(d).trained
                         /\ Resolved(d).baseline = Resolved(d).model.X ]_vars

\* C29 witness: after a restart a request ran on the detector loaded from the
\* store, appended to its baseline without retraining, and the store still
\* holds the snapshot of the training.
C29_Witness ==
    /\ resp.op = "anomaly" /\ resp.status = 200
    /\ InLog(resp.log, "loaded") /\ ~InLog(resp.log, "trained")
    /\ Dev \in DOMAIN anomaly_detectors
    /\ C29_Readable(files, Dev)
    /\ Len(anomaly_detectors[Dev].baseline) > Len(files[OwnFile(Dev)].obj.baseline)
    /\ files[OwnFile(Dev)].obj = C29_AtLastTraining(anomaly_detectors[Dev])

\* C30: a predict call on a trained detector that labels every input
\* observation outlier leaves the baseline, the model, the trained flag and
\* the persisted entry as they were, also when len(baseline) is a multiple
\* of 100.
C30_AllOutliersNoChange ==
    [][ (/\ Did("predict") /\ detector.trained /\ resp'.status = 0
         /\ Len(resp'.values) > 0
         /\ NormalsOf(detector.model, resp'.values) = <<>>)
            => /\ detector' = detector
               /\ files' = files
               /\ resp'.log = <<>>
               /\ Len(resp'.anomalies) = Len(resp'.values) ]_vars

\* C30 witness: a detector trained on 100 observations was asked about
\* observations it labels outlier, all of them, and holds the same 100.
C30_Witness ==
    /\ calls = 2 /\ resp.op = "predict" /\ resp.status = 0
    /\ Len(resp.values) > 0
    /\ Len(resp.anomalies) = Len(resp.values)
    /\ detector.trained
    /\ Len(detector.baseline) = RetrainEvery
    /\ detector.model.X = detector.baseline

====
